---- MODULE Spec2Model ----
(***************************************************************************)
(* Model of the caddy-tailscale configuration core: the option parsers of  *)
(* parse.go, the App loader of app.go, the site directive of directive.go  *)
(* and the site-configuration registry it publishes to.                    *)
(*                                                                         *)
(* A configuration block is read one line at a time: every step of a       *)
(* parser's `for d.NextBlock(0)` loop is one action, and the line it reads  *)
(* is drawn from a finite alphabet.  A line is [kw, args]: the token        *)
(* d.Val() returns after NextBlock, and the tokens NextArg can still load   *)
(* on that line.  The alphabets hold no line with more arguments than its   *)
(* keyword's handler loads.                                                *)
(***************************************************************************)
EXTENDS Integers, Sequences, FiniteSets, TLC

(***************************************************************************)
(* Bounds of the model.                                                    *)
(***************************************************************************)
\* lines read by one parse (of the global option, or of a site's directive);
\* the line that opens a named node block is one of them
MaxLines == 3
\* goroutines calling the registry
NProcs == 3

VARIABLES
    pc,          \* where the configuration load stands
    app,         \* the *App built by parseAppConfig
    node,        \* the Node being filled (named block, or the directive's scratch)
    directive,   \* the TailscaleDirective built by parseTailscaleDirective
    appResult,   \* what parseAppConfig returned
    handler,     \* what parseTailscaleDirective returned
    err,         \* the error the load ended with
    line,        \* the dispenser's current line
    nlines,      \* option lines read so far
    header,      \* the arguments on the directive's own line
    blk,         \* what the current block's lines gave, per keyword
    appSeen,     \* what the App-scope option lines gave, per keyword
    blocks,      \* the named blocks parsed to their end, in order
    siteConfigs, \* directive.go: the registry map
    mu,          \* directive.go: siteConfigsMu
    gpc,         \* per goroutine: its place in setSiteConfig / getSiteConfig
    garg,        \* per goroutine: the call's arguments
    gret,        \* per goroutine: what getSiteConfig returned
    raced,       \* goroutines whose map access overlapped a write
    lastSet      \* per name: the Node of the last completed setSiteConfig

pvars == <<pc, app, node, directive, appResult, handler, err, line, nlines,
           header, blk, appSeen, blocks>>
rvars == <<mu, gpc, garg, gret, raced, lastSet>>
vars == <<pc, app, node, directive, appResult, handler, err, line, nlines,
          header, blk, appSeen, blocks, siteConfigs, mu, gpc, garg, gret,
          raced, lastSet>>

(***************************************************************************)
(* Records.                                                                *)
(***************************************************************************)
\* opt.Bool is a string: "" is unset, else "true" or "false"
Unset == ""

\* a conversion that leaves false unset
NewBoolOmitFalse(b) == IF b THEN "true" ELSE Unset

\* opt.NewBool
NewBool(b) == IF b THEN "true" ELSE "false"

ZeroNode ==
    [AuthKey |-> "", ControlURL |-> "", Ephemeral |-> Unset, WebUI |-> Unset,
     Hostname |-> "", Port |-> 0, StateDir |-> "", Tags |-> <<>>, name |-> ""]

ZeroDirective ==
    [NodeName |-> "", AuthKey |-> "", ControlURL |-> "", Ephemeral |-> Unset,
     WebUI |-> Unset, Hostname |-> "", Port |-> 0, StateDir |-> "",
     Tags |-> <<>>]

\* a Go map[string]Node: a set of entries with pairwise distinct keys
EmptyMap == {}

Keys(m) == {e.k : e \in m}

\* a store that leaves an existing entry alone
MapStoreKeepFirst(m, k, v) ==
    IF k \in Keys(m) THEN m ELSE m \cup {[k |-> k, v |-> v]}

\* a store that keeps the old entry's fields where the new Node's are zero
MapStoreMerge(m, k, v) ==
    IF k \in Keys(m)
    THEN LET old == (CHOOSE e \in m : e.k = k).v IN
         {e \in m : e.k # k}
         \cup {[k |-> k,
                v |-> [f \in DOMAIN v |->
                         IF v[f] = ZeroNode[f] /\ f # "name" THEN old[f] ELSE v[f]]]}
    ELSE m \cup {[k |-> k, v |-> v]}

MapStore(m, k, v) == {e \in m : e.k # k} \cup {[k |-> k, v |-> v]}

MapLoad(m, k) ==
    IF k \in Keys(m)
    THEN [config |-> (CHOOSE e \in m : e.k = k).v, exists |-> TRUE]
    ELSE [config |-> ZeroNode, exists |-> FALSE]

NewApp ==
    [DefaultAuthKey |-> "", ControlURL |-> "", Ephemeral |-> FALSE,
     StateDir |-> "", WebUI |-> FALSE, Tags |-> <<>>, Nodes |-> EmptyMap]

(***************************************************************************)
(* Errors of the dispenser: ArgErr, WrapErr(err), Errf(format, token).     *)
(***************************************************************************)
Nil == [kind |-> "nil", detail |-> ""]

\* a missing argument that is passed over in silence
ArgErrIgnored == Nil

ArgErr == [kind |-> "ArgErr", detail |-> ""]

WrapErr(e) == [kind |-> "WrapErr", detail |-> e]

Errf(tok) == [kind |-> "unrecognized subdirective", detail |-> tok]

(***************************************************************************)
(* strconv.ParseBool and strconv.ParseUint(s, 10, 16).                     *)
(***************************************************************************)
ParseBool(s) ==
    IF s \in {"1", "t", "T", "TRUE", "true", "True"}
    THEN [v |-> TRUE, err |-> "nil"]
    ELSE IF s \in {"0", "f", "F", "FALSE", "false", "False"}
    THEN [v |-> FALSE, err |-> "nil"]
    ELSE [v |-> FALSE, err |-> "ErrSyntax"]

\* the characters of the tokens given to `port`
CharsOf(s) ==
    CASE s = "0" -> <<"0">>
      [] s = "8443" -> <<"8", "4", "4", "3">>
      [] s = "65535" -> <<"6", "5", "5", "3", "5">>
      [] s = "65536" -> <<"6", "5", "5", "3", "6">>
      [] s = "70000" -> <<"7", "0", "0", "0", "0">>
      [] s = "abc" -> <<"a", "b", "c">>
      [] s = "-1" -> <<"-", "1">>
      [] s = "" -> <<>>

DigitOf(c) ==
    CASE c = "0" -> 0 [] c = "1" -> 1 [] c = "2" -> 2 [] c = "3" -> 3
      [] c = "4" -> 4 [] c = "5" -> 5 [] c = "6" -> 6 [] c = "7" -> 7
      [] c = "8" -> 8 [] c = "9" -> 9 [] OTHER -> 99

BitSize == 16

\* the largest value of a wider integer
MaxValWide == 2 ^ 30

\* ParseUint's maxVal for bitSize 16
MaxVal == 2 ^ BitSize - 1

RECURSIVE ParseUintFrom(_, _)
ParseUintFrom(cs, n) ==
    IF cs = <<>> THEN [v |-> n, err |-> "nil"]
    ELSE LET d == DigitOf(Head(cs)) IN
         IF d >= 10 THEN [v |-> 0, err |-> "ErrSyntax"]
         ELSE IF n * 10 + d > MaxVal THEN [v |-> MaxVal, err |-> "ErrRange"]
         ELSE ParseUintFrom(Tail(cs), n * 10 + d)

ParseUint(s) ==
    IF CharsOf(s) = <<>> THEN [v |-> 0, err |-> "ErrSyntax"]
    ELSE ParseUintFrom(CharsOf(s), 0)

\* uint16(v)
Uint16(v) == v % (2 ^ BitSize)

\* an assignment in place of the append
AssignArgs(tags, args) == args

\* for d.NextArg() { tags = append(tags, d.Val()) }
RECURSIVE AppendArgs(_, _)
AppendArgs(tags, args) ==
    IF args = <<>> THEN tags
    ELSE AppendArgs(Append(tags, Head(args)), Tail(args))

(***************************************************************************)
(* One turn of the loop of parseNodeOptionsFromDispenser on line l.        *)
(***************************************************************************)
parseNodeOptionsFromDispenser(n, l) ==
    CASE l.kw = "auth_key" ->
           IF l.args = <<>> THEN [node |-> n, err |-> ArgErr]
           ELSE [node |-> [n EXCEPT !.AuthKey = l.args[1]], err |-> Nil]
      [] l.kw = "control_url" ->
           IF l.args = <<>> THEN [node |-> n, err |-> ArgErr]
           ELSE [node |-> [n EXCEPT !.ControlURL = l.args[1]], err |-> Nil]
      [] l.kw = "ephemeral" ->
           IF l.args # <<>>
           THEN LET r == ParseBool(l.args[1]) IN
                IF r.err # "nil" THEN [node |-> n, err |-> WrapErr(r.err)]
                ELSE [node |-> [n EXCEPT !.Ephemeral = NewBool(r.v)], err |-> Nil]
           ELSE [node |-> [n EXCEPT !.Ephemeral = NewBool(TRUE)], err |-> Nil]
      [] l.kw = "hostname" ->
           IF l.args = <<>> THEN [node |-> n, err |-> ArgErr]
           ELSE [node |-> [n EXCEPT !.Hostname = l.args[1]], err |-> Nil]
      [] l.kw = "port" ->
           IF l.args = <<>> THEN [node |-> n, err |-> ArgErr]
           ELSE LET r == ParseUint(l.args[1]) IN
                IF r.err # "nil" THEN [node |-> n, err |-> WrapErr(r.err)]
                ELSE [node |-> [n EXCEPT !.Port = Uint16(r.v)], err |-> Nil]
      [] l.kw = "state_dir" ->
           IF l.args = <<>> THEN [node |-> n, err |-> ArgErr]
           ELSE [node |-> [n EXCEPT !.StateDir = l.args[1]], err |-> Nil]
      [] l.kw = "webui" ->
           IF l.args # <<>>
           THEN LET r == ParseBool(l.args[1]) IN
                IF r.err # "nil" THEN [node |-> n, err |-> WrapErr(r.err)]
                ELSE [node |-> [n EXCEPT !.WebUI = NewBool(r.v)], err |-> Nil]
           ELSE [node |-> [n EXCEPT !.WebUI = NewBool(TRUE)], err |-> Nil]
      [] l.kw = "tags" ->
           [node |-> [n EXCEPT !.Tags = AppendArgs(n.Tags, l.args)], err |-> Nil]
      [] OTHER -> [node |-> n, err |-> Errf(l.kw)]

(***************************************************************************)
(* One turn of the loop of parseNodeOptionsFromHelper on line l.           *)
(***************************************************************************)
parseNodeOptionsFromHelper(n, l) ==
    CASE l.kw = "auth_key" ->
           IF l.args = <<>> THEN [node |-> n, err |-> ArgErr]
           ELSE [node |-> [n EXCEPT !.AuthKey = l.args[1]], err |-> Nil]
      [] l.kw = "control_url" ->
           IF l.args = <<>> THEN [node |-> n, err |-> ArgErr]
           ELSE [node |-> [n EXCEPT !.ControlURL = l.args[1]], err |-> Nil]
      [] l.kw = "ephemeral" ->
           IF l.args # <<>>
           THEN LET r == ParseBool(l.args[1]) IN
                IF r.err # "nil" THEN [node |-> n, err |-> WrapErr(r.err)]
                ELSE [node |-> [n EXCEPT !.Ephemeral = NewBool(r.v)], err |-> Nil]
           ELSE [node |-> [n EXCEPT !.Ephemeral = NewBool(TRUE)], err |-> Nil]
      [] l.kw = "hostname" ->
           IF l.args = <<>> THEN [node |-> n, err |-> ArgErr]
           ELSE [node |-> [n EXCEPT !.Hostname = l.args[1]], err |-> Nil]
      [] l.kw = "port" ->
           IF l.args = <<>> THEN [node |-> n, err |-> ArgErr]
           ELSE LET r == ParseUint(l.args[1]) IN
                IF r.err # "nil" THEN [node |-> n, err |-> WrapErr(r.err)]
                ELSE [node |-> [n EXCEPT !.Port = Uint16(r.v)], err |-> Nil]
      [] l.kw = "state_dir" ->
           IF l.args = <<>> THEN [node |-> n, err |-> ArgErr]
           ELSE [node |-> [n EXCEPT !.StateDir = l.args[1]], err |-> Nil]
      [] l.kw = "webui" ->
           IF l.args # <<>>
           THEN LET r == ParseBool(l.args[1]) IN
                IF r.err # "nil" THEN [node |-> n, err |-> WrapErr(r.err)]
                ELSE [node |-> [n EXCEPT !.WebUI = NewBool(r.v)], err |-> Nil]
           ELSE [node |-> [n EXCEPT !.WebUI = NewBool(TRUE)], err |-> Nil]
      [] l.kw = "tags" ->
           [node |-> [n EXCEPT !.Tags = AppendArgs(n.Tags, l.args)], err |-> Nil]
      [] OTHER -> [node |-> n, err |-> Errf(l.kw)]

(***************************************************************************)
(* One turn of the loop of parseAppOptions on line l: a case of the switch *)
(* applies an option, or (named) the default case takes the token for a    *)
(* node name.                                                              *)
(***************************************************************************)
\* the case labels of parseAppOptions' switch
AppCases == {"auth_key", "control_url", "ephemeral", "state_dir", "webui", "tags"}

AppCase(a, l) ==
    CASE l.kw = "auth_key" ->
           IF l.args = <<>> THEN [app |-> a, err |-> ArgErr, named |-> FALSE]
           ELSE [app |-> [a EXCEPT !.DefaultAuthKey = l.args[1]], err |-> Nil, named |-> FALSE]
      [] l.kw = "control_url" ->
           IF l.args = <<>> THEN [app |-> a, err |-> ArgErr, named |-> FALSE]
           ELSE [app |-> [a EXCEPT !.ControlURL = l.args[1]], err |-> Nil, named |-> FALSE]
      [] l.kw = "ephemeral" ->
           IF l.args # <<>>
           THEN LET r == ParseBool(l.args[1]) IN
                IF r.err # "nil" THEN [app |-> a, err |-> WrapErr(r.err), named |-> FALSE]
                ELSE [app |-> [a EXCEPT !.Ephemeral = r.v], err |-> Nil, named |-> FALSE]
           ELSE [app |-> [a EXCEPT !.Ephemeral = TRUE], err |-> Nil, named |-> FALSE]
      [] l.kw = "state_dir" ->
           IF l.args = <<>> THEN [app |-> a, err |-> ArgErr, named |-> FALSE]
           ELSE [app |-> [a EXCEPT !.StateDir = l.args[1]], err |-> Nil, named |-> FALSE]
      [] l.kw = "webui" ->
           IF l.args # <<>>
           THEN LET r == ParseBool(l.args[1]) IN
                IF r.err # "nil" THEN [app |-> a, err |-> WrapErr(r.err), named |-> FALSE]
                ELSE [app |-> [a EXCEPT !.WebUI = r.v], err |-> Nil, named |-> FALSE]
           ELSE [app |-> [a EXCEPT !.WebUI = TRUE], err |-> Nil, named |-> FALSE]
      [] l.kw = "tags" ->
           [app |-> [a EXCEPT !.Tags = AppendArgs(a.Tags, l.args)], err |-> Nil, named |-> FALSE]

\* a switch whose `webui` case is missing
parseAppOptionsNoWebUI(a, l) ==
    IF l.kw \in AppCases \ {"webui"} THEN AppCase(a, l)
    ELSE [app |-> a, err |-> Nil, named |-> TRUE]

parseAppOptions(a, l) ==
    IF l.kw \in AppCases THEN AppCase(a, l)
    ELSE [app |-> a, err |-> Nil, named |-> TRUE]

(***************************************************************************)
(* The lines a block can hold.                                             *)
(***************************************************************************)
Line(k, a) == [kw |-> k, args |-> a]

NodeLines ==
    {Line("auth_key", a) : a \in {<<>>, <<"k1">>}}
    \cup {Line("control_url", a) : a \in {<<>>, <<"u1">>}}
    \cup {Line("hostname", a) : a \in {<<>>, <<"h1">>}}
    \cup {Line("state_dir", a) : a \in {<<>>, <<"d1">>}}
    \cup {Line("port", a) : a \in {<<>>, <<"0">>, <<"8443">>, <<"65535">>,
                                   <<"65536">>, <<"abc">>}}
    \cup {Line("ephemeral", a) : a \in {<<>>, <<"true">>, <<"false">>, <<"maybe">>}}
    \cup {Line("webui", a) : a \in {<<>>, <<"true">>, <<"false">>, <<"yes">>}}
    \cup {Line("tags", a) : a \in {<<>>, <<"a">>, <<"b">>, <<"a", "b", "c">>}}
    \cup {Line("bogus", <<>>)}

AppOptionLines ==
    {Line("auth_key", a) : a \in {<<>>, <<"k0">>}}
    \cup {Line("control_url", a) : a \in {<<>>, <<"u0">>}}
    \cup {Line("state_dir", a) : a \in {<<>>, <<"d0">>}}
    \cup {Line("ephemeral", a) : a \in {<<>>, <<"false">>, <<"maybe">>}}
    \cup {Line("webui", a) : a \in {<<>>, <<"false">>, <<"yes">>}}
    \cup {Line("tags", a) : a \in {<<>>, <<"t0">>, <<"t1", "t2">>}}

\* the tokens that open a block at App scope: `node1 {`, `hostname {`, `port {`
BlockNames == {"node1", "hostname", "port"}

AppLines == AppOptionLines \cup {Line(n, <<"{">>) : n \in BlockNames}

\* the arguments on the directive's line: none, a name, the empty string
Headers == {<<>>, <<"node1">>, <<"">>}

(***************************************************************************)
(* What the lines read so far gave: per keyword the arguments of its last  *)
(* line, and the argument lists of the `tags` lines in order.              *)
(***************************************************************************)
Recorded ==
    {"auth_key", "control_url", "ephemeral", "hostname", "port", "state_dir",
     "webui", "bogus"}

NoSeen ==
    [given |-> [k \in Recorded |-> [seen |-> FALSE, args |-> <<>>]],
     tagLines |-> <<>>]

Record(s, l) ==
    IF l.kw = "tags" THEN [s EXCEPT !.tagLines = Append(@, l.args)]
    ELSE [s EXCEPT !.given[l.kw] = [seen |-> TRUE, args |-> l.args]]

(***************************************************************************)
(* The global option: parseAppConfig.                                      *)
(***************************************************************************)
\* app.go: parseAppConfig up to its call of parseAppOptions
ParseAppConfigBegin ==
    /\ pc = "start"
    /\ pc' = "app"
    /\ app' = NewApp
    /\ UNCHANGED <<node, directive, appResult, handler, err, line, nlines,
                   header, blk, appSeen, blocks, siteConfigs>>
    /\ UNCHANGED rvars

\* parse.go: a turn of parseAppOptions' loop on an option line
AppOption ==
    /\ pc = "app"
    /\ nlines < MaxLines
    /\ \E l \in AppLines :
         LET r == parseAppOptions(app, l) IN
         /\ ~r.named
         /\ line' = l
         /\ appSeen' = Record(appSeen, l)
         /\ app' = r.app
         /\ err' = r.err
         /\ IF r.err = Nil
            THEN UNCHANGED <<pc, appResult>>
            ELSE pc' = "failed" /\ appResult' = "nil"
    /\ nlines' = nlines + 1
    /\ UNCHANGED <<node, directive, handler, header, blk, blocks, siteConfigs>>
    /\ UNCHANGED rvars

\* parse.go: parseAppOptions' default case enters parseNamedNodeConfig
NamedNodeBegin ==
    /\ pc = "app"
    /\ nlines < MaxLines
    /\ \E l \in AppLines :
         /\ parseAppOptions(app, l).named
         /\ line' = l
         /\ node' = [ZeroNode EXCEPT !.name = l.kw]
    /\ nlines' = nlines + 1
    /\ blk' = NoSeen
    /\ pc' = "node"
    /\ UNCHANGED <<app, directive, appResult, handler, err, header,
                   appSeen, blocks, siteConfigs>>
    /\ UNCHANGED rvars

\* parse.go: a turn of parseNodeOptionsFromDispenser's loop in a named block
NodeOption ==
    /\ pc = "node"
    /\ nlines < MaxLines
    /\ \E l \in NodeLines :
         LET r == parseNodeOptionsFromDispenser(node, l) IN
         /\ line' = l
         /\ blk' = Record(blk, l)
         /\ node' = r.node
         /\ err' = r.err
         /\ IF r.err = Nil
            THEN UNCHANGED <<pc, appResult>>
            ELSE pc' = "failed" /\ appResult' = "nil"
    /\ nlines' = nlines + 1
    /\ UNCHANGED <<app, directive, handler, header, appSeen, blocks, siteConfigs>>
    /\ UNCHANGED rvars

\* parse.go: the named block ends, parseAppOptions stores the node
NamedNodeEnd ==
    /\ pc = "node"
    /\ pc' = "app"
    /\ app' = [app EXCEPT !.Nodes = MapStore(@, node.name, node)]
    /\ blocks' = Append(blocks, [name |-> node.name, seen |-> blk])
    /\ node' = ZeroNode
    /\ blk' = NoSeen
    /\ UNCHANGED <<directive, appResult, handler, err, line, nlines, header,
                   appSeen, siteConfigs>>
    /\ UNCHANGED rvars

\* app.go: parseAppOptions returned nil, parseAppConfig returns the App
ParseAppConfigEnd ==
    /\ pc = "app"
    /\ pc' = "loaded"
    /\ appResult' = "App"
    /\ UNCHANGED <<app, node, directive, handler, err, line, nlines, header,
                   blk, appSeen, blocks, siteConfigs>>
    /\ UNCHANGED rvars

(***************************************************************************)
(* A site's directive: parseTailscaleDirective, then Provision.            *)
(***************************************************************************)
\* directive.go: NodeName after the directive's own line
HeaderName(h) ==
    LET given == IF h # <<>> THEN h[1] ELSE ""
    IN IF given = "" THEN "default" ELSE given

\* directive.go: parseTailscaleDirective up to parseNodeOptionsFromHelper
ParseDirectiveBegin ==
    /\ pc = "sites"
    /\ \E h \in Headers :
         /\ header' = h
         /\ directive' = [ZeroDirective EXCEPT !.NodeName = HeaderName(h)]
    /\ node' = ZeroNode
    /\ blk' = NoSeen
    /\ pc' = "directive"
    /\ UNCHANGED <<app, appResult, handler, err, line, nlines, appSeen,
                   blocks, siteConfigs>>
    /\ UNCHANGED rvars

\* parse.go: a turn of parseNodeOptionsFromHelper's loop
DirectiveOption ==
    /\ pc = "directive"
    /\ nlines < MaxLines
    /\ \E l \in NodeLines :
         LET r == parseNodeOptionsFromHelper(node, l) IN
         /\ line' = l
         /\ blk' = Record(blk, l)
         /\ node' = r.node
         /\ err' = r.err
         /\ IF r.err = Nil
            THEN UNCHANGED <<pc, handler>>
            ELSE pc' = "failed" /\ handler' = "nil"
    /\ nlines' = nlines + 1
    /\ UNCHANGED <<app, directive, appResult, header, appSeen, blocks,
                   siteConfigs>>
    /\ UNCHANGED rvars

\* directive.go: the parsed values are copied to the directive
CopyToDirective(t, n) ==
    [t EXCEPT !.AuthKey = n.AuthKey, !.ControlURL = n.ControlURL,
              !.Ephemeral = n.Ephemeral, !.WebUI = n.WebUI,
              !.Hostname = n.Hostname, !.Port = n.Port,
              !.StateDir = n.StateDir, !.Tags = n.Tags]

ParseDirectiveEnd ==
    /\ pc = "directive"
    /\ directive' = CopyToDirective(directive, node)
    /\ handler' = "directive"
    /\ pc' = "parsed"
    /\ UNCHANGED <<app, node, appResult, err, line, nlines, header, blk,
                   appSeen, blocks, siteConfigs>>
    /\ UNCHANGED rvars

\* a Provision that fills what the directive left unset from the App
ProvisionNodeInherit(t) ==
    [AuthKey |-> IF t.AuthKey = "" THEN app.DefaultAuthKey ELSE t.AuthKey,
     ControlURL |-> IF t.ControlURL = "" THEN app.ControlURL ELSE t.ControlURL,
     Ephemeral |-> t.Ephemeral,
     WebUI |-> IF t.WebUI = Unset /\ app.WebUI THEN "true" ELSE t.WebUI,
     Hostname |-> t.Hostname, Port |-> t.Port, StateDir |-> t.StateDir,
     Tags |-> t.Tags,
     name |-> IF t.NodeName = "" THEN "default" ELSE t.NodeName]

\* directive.go: the Node that Provision builds from the directive
ProvisionName(t) == IF t.NodeName = "" THEN "default" ELSE t.NodeName

ProvisionNode(t) ==
    [AuthKey |-> t.AuthKey, ControlURL |-> t.ControlURL,
     Ephemeral |-> t.Ephemeral, WebUI |-> t.WebUI, Hostname |-> t.Hostname,
     Port |-> t.Port, StateDir |-> t.StateDir, Tags |-> t.Tags,
     name |-> ProvisionName(t)]

\* directive.go: TailscaleDirective.Provision, setSiteConfig included
Provision ==
    /\ pc = "parsed"
    /\ siteConfigs' = MapStore(siteConfigs, ProvisionName(directive),
                               ProvisionNode(directive))
    /\ pc' = "provisioned"
    /\ UNCHANGED <<app, node, directive, appResult, handler, err, line,
                   nlines, header, blk, appSeen, blocks>>
    /\ UNCHANGED rvars

(***************************************************************************)
(* The registry under concurrent callers.  Every goroutine makes one call  *)
(* of setSiteConfig or getSiteConfig.  The map access itself takes time    *)
(* (it begins and it ends); an access that overlaps a write is a data      *)
(* race, whose outcome Go does not define.                                 *)
(***************************************************************************)
Procs == 1 .. NProcs

RegNames == {"default", "node1"}

ConfigA == [ZeroNode EXCEPT !.AuthKey = "k1", !.Port = 8443]

ConfigB == [ZeroNode EXCEPT !.AuthKey = "k2", !.Hostname = "h2"]

Configs == {ConfigA, ConfigB}

\* a Lock that waits for the readers only
CanLockReadersOnly(m) == m.r = {}

\* a RLock that never waits
CanRLockAlways(m) == TRUE

\* sync.RWMutex: Lock waits until no writer and no reader holds it
CanLock(m) == m.w = 0 /\ m.r = {}

\* sync.RWMutex: RLock waits until no writer holds it
CanRLock(m) == m.w = 0

\* some other goroutine is inside a map access that conflicts with p's
Accessing(p, kinds) == {q \in Procs \ {p} : gpc[q] \in kinds}

\* what a map write that raced may leave behind
RacyStores(m, k, v) ==
    {m, MapStore(m, k, v), {[k |-> k, v |-> v]}}
    \cup {MapStore(m, k, [v EXCEPT !.AuthKey = c.AuthKey]) : c \in Configs}

\* what a map read that raced may return
RacyLoads(m, k) ==
    {MapLoad(m, k), [config |-> ZeroNode, exists |-> FALSE]}
    \cup {[config |-> [c EXCEPT !.AuthKey = d.AuthKey], exists |-> TRUE] :
            c \in Configs, d \in Configs}

\* setSiteConfig is called
CallSet(p) ==
    /\ gpc[p] = "idle"
    /\ \E n \in RegNames, c \in Configs :
         garg' = [garg EXCEPT ![p] = [op |-> "set", name |-> n, config |-> c]]
    /\ gpc' = [gpc EXCEPT ![p] = "Lock"]
    /\ UNCHANGED <<siteConfigs, mu, gret, raced, lastSet>>
    /\ UNCHANGED pvars

\* siteConfigsMu.Lock()
Lock(p) ==
    /\ gpc[p] = "Lock"
    /\ CanLock(mu)
    /\ mu' = [mu EXCEPT !.w = p]
    /\ gpc' = [gpc EXCEPT ![p] = "store"]
    /\ UNCHANGED <<siteConfigs, garg, gret, raced, lastSet>>
    /\ UNCHANGED pvars

\* siteConfigs[nodeName] = config begins
StoreBegin(p) ==
    /\ gpc[p] = "store"
    /\ gpc' = [gpc EXCEPT ![p] = "storing"]
    /\ raced' = IF Accessing(p, {"storing", "loading"}) # {}
                THEN raced \cup {p} \cup Accessing(p, {"storing", "loading"})
                ELSE raced
    /\ UNCHANGED <<siteConfigs, mu, garg, gret, lastSet>>
    /\ UNCHANGED pvars

\* siteConfigs[nodeName] = config ends
StoreEnd(p) ==
    /\ gpc[p] = "storing"
    /\ siteConfigs' \in
         IF p \in raced
         THEN RacyStores(siteConfigs, garg[p].name, garg[p].config)
         ELSE {MapStore(siteConfigs, garg[p].name, garg[p].config)}
    /\ gpc' = [gpc EXCEPT ![p] = "Unlock"]
    /\ UNCHANGED <<mu, garg, gret, raced, lastSet>>
    /\ UNCHANGED pvars

\* the deferred siteConfigsMu.Unlock(); setSiteConfig returns
Unlock(p) ==
    /\ gpc[p] = "Unlock"
    /\ mu' = [mu EXCEPT !.w = IF @ = p THEN 0 ELSE @]
    /\ gpc' = [gpc EXCEPT ![p] = "done"]
    /\ lastSet' = {e \in lastSet : e.k # garg[p].name}
                  \cup {[k |-> garg[p].name, v |-> garg[p].config]}
    /\ UNCHANGED <<siteConfigs, garg, gret, raced>>
    /\ UNCHANGED pvars

\* getSiteConfig is called
CallGet(p) ==
    /\ gpc[p] = "idle"
    /\ \E n \in RegNames :
         garg' = [garg EXCEPT ![p] = [op |-> "get", name |-> n, config |-> ZeroNode]]
    /\ gpc' = [gpc EXCEPT ![p] = "RLock"]
    /\ UNCHANGED <<siteConfigs, mu, gret, raced, lastSet>>
    /\ UNCHANGED pvars

\* siteConfigsMu.RLock()
RLock(p) ==
    /\ gpc[p] = "RLock"
    /\ CanRLock(mu)
    /\ mu' = [mu EXCEPT !.r = @ \cup {p}]
    /\ gpc' = [gpc EXCEPT ![p] = "load"]
    /\ UNCHANGED <<siteConfigs, garg, gret, raced, lastSet>>
    /\ UNCHANGED pvars

\* config, exists := siteConfigs[nodeName] begins
LoadBegin(p) ==
    /\ gpc[p] = "load"
    /\ gpc' = [gpc EXCEPT ![p] = "loading"]
    /\ raced' = IF Accessing(p, {"storing"}) # {}
                THEN raced \cup {p} \cup Accessing(p, {"storing"})
                ELSE raced
    /\ UNCHANGED <<siteConfigs, mu, garg, gret, lastSet>>
    /\ UNCHANGED pvars

\* config, exists := siteConfigs[nodeName] ends
LoadEnd(p) ==
    /\ gpc[p] = "loading"
    /\ \E v \in IF p \in raced
                THEN RacyLoads(siteConfigs, garg[p].name)
                ELSE {MapLoad(siteConfigs, garg[p].name)} :
         gret' = [gret EXCEPT ![p] = v]
    /\ gpc' = [gpc EXCEPT ![p] = "RUnlock"]
    /\ UNCHANGED <<siteConfigs, mu, garg, raced, lastSet>>
    /\ UNCHANGED pvars

\* the deferred siteConfigsMu.RUnlock(); getSiteConfig returns
RUnlock(p) ==
    /\ gpc[p] = "RUnlock"
    /\ mu' = [mu EXCEPT !.r = @ \ {p}]
    /\ gpc' = [gpc EXCEPT ![p] = "done"]
    /\ UNCHANGED <<siteConfigs, garg, gret, raced, lastSet>>
    /\ UNCHANGED pvars

(***************************************************************************)
(* Initial states.                                                         *)
(***************************************************************************)
InitRegistry ==
    /\ siteConfigs = EmptyMap
    /\ mu = [w |-> 0, r |-> {}]
    /\ gpc = [p \in Procs |-> "idle"]
    /\ garg = [p \in Procs |-> [op |-> "", name |-> "", config |-> ZeroNode]]
    /\ gret = [p \in Procs |-> [config |-> ZeroNode, exists |-> FALSE]]
    /\ raced = {}
    /\ lastSet = EmptyMap

\* the App of `tailscale { auth_key k0; webui; node1 { hostname h1 } }`
SampleApp ==
    [NewApp EXCEPT
       !.DefaultAuthKey = "k0",
       !.WebUI = TRUE,
       !.Nodes = {[k |-> "node1",
                   v |-> [ZeroNode EXCEPT !.name = "node1", !.Hostname = "h1"]]}]

\* what the global option left when the sites are parsed: nothing, or SampleApp
LoadedApps == {NewApp, SampleApp}

InitParse ==
    /\ node = ZeroNode
    /\ directive = ZeroDirective
    /\ handler = "pending"
    /\ err = Nil
    /\ line = Line("", <<>>)
    /\ nlines = 0
    /\ header = <<>>
    /\ blk = NoSeen
    /\ appSeen = NoSeen
    /\ blocks = <<>>

\* the global option is about to be parsed
InitApp ==
    /\ pc = "start"
    /\ app = NewApp
    /\ appResult = "pending"
    /\ InitParse
    /\ InitRegistry

\* the global option has been parsed, a site's directive is about to be
InitSite ==
    /\ pc = "sites"
    /\ app \in LoadedApps
    /\ appResult = "App"
    /\ InitParse
    /\ InitRegistry

\* the load is over, goroutines call the registry
InitCalls ==
    /\ pc = "serving"
    /\ app = NewApp
    /\ appResult = "App"
    /\ InitParse
    /\ InitRegistry

Init == InitApp \/ InitSite

Next ==
    \/ ParseAppConfigBegin
    \/ AppOption
    \/ NamedNodeBegin
    \/ NodeOption
    \/ NamedNodeEnd
    \/ ParseAppConfigEnd
    \/ ParseDirectiveBegin
    \/ DirectiveOption
    \/ ParseDirectiveEnd
    \/ Provision

NextCalls ==
    \E p \in Procs :
        \/ CallSet(p)
        \/ Lock(p)
        \/ StoreBegin(p)
        \/ StoreEnd(p)
        \/ Unlock(p)
        \/ CallGet(p)
        \/ RLock(p)
        \/ LoadBegin(p)
        \/ LoadEnd(p)
        \/ RUnlock(p)

\* the configuration load: the global option, or a site's directive
Spec == Init /\ [][Next]_vars

\* the registry under concurrent callers
SpecRegistry == InitCalls /\ [][NextCalls]_vars

(***************************************************************************)
(* The registry's claims, under SpecRegistry.                              *)
(***************************************************************************)
\* the goroutine holds the write lock / a read lock
InWrite(p) == gpc[p] \in {"store", "storing", "Unlock"}

InRead(p) == gpc[p] \in {"load", "loading", "RUnlock"}

Writers == {p \in Procs : garg[p].op = "set"}

Readers == {p \in Procs : garg[p].op = "get"}

NotFound == [config |-> ZeroNode, exists |-> FALSE]

Found(c) == [config |-> c, exists |-> TRUE]

\* what getSiteConfig(x) must return after the completed calls of setSiteConfig
LastWritten(x) ==
    IF \E e \in lastSet : e.k = x
    THEN Found((CHOOSE e \in lastSet : e.k = x).v)
    ELSE NotFound

\* C1: the registry holds at most one Node per name and is last-write-wins:
\* whenever no write is under way the map is exactly the Nodes of the last
\* completed setSiteConfig per name, and a getSiteConfig(x) that has read
\* returns found with that Node, or not-found when x was never set.
C1_LastWriteWins ==
    /\ \A e \in siteConfigs, f \in siteConfigs : e.k = f.k => e = f
    /\ (\A p \in Procs : ~InWrite(p)) => siteConfigs = lastSet
    /\ \A p \in Procs : gpc[p] = "RUnlock" => gret[p] = LastWritten(garg[p].name)

\* two completed writes of different Nodes under one name, then a read of it
C1_Witness ==
    \E p \in Procs, q \in Procs, r \in Procs :
        /\ p # q
        /\ gpc[p] = "done" /\ gpc[q] = "done"
        /\ garg[p].op = "set" /\ garg[q].op = "set"
        /\ garg[p].name = garg[q].name
        /\ garg[p].config # garg[q].config
        /\ gpc[r] = "RUnlock"
        /\ garg[r].name = garg[p].name
        /\ gret[r] = Found(garg[q].config)

\* C2: writers with pairwise distinct names never lose an entry: once every
\* writer has returned, each name holds its writer's Node and every read of
\* it returns found with that Node.
C2_NoLostEntry ==
    ((\A p \in Writers : gpc[p] = "done")
     /\ (\A p \in Writers, q \in Writers : p # q => garg[p].name # garg[q].name))
    => \A p \in Writers :
          /\ MapLoad(siteConfigs, garg[p].name) = Found(garg[p].config)
          /\ \A r \in Readers :
                (gpc[r] = "RUnlock" /\ garg[r].name = garg[p].name)
                => gret[r] = Found(garg[p].config)

\* every goroutine but one wrote, under pairwise distinct names, and all have
\* returned; the last one reads one of the names
C2_Witness ==
    /\ Cardinality(Writers) >= 2
    /\ \A p \in Writers : gpc[p] = "done"
    /\ \A p \in Writers, q \in Writers : p # q => garg[p].name # garg[q].name
    /\ \E r \in Readers : gpc[r] = "RUnlock" /\ gret[r].exists

\* C3: a writer is never inside the critical section together with another
\* writer or a reader, no map access races, and a read returns not-found or
\* the whole Node some setSiteConfig passed for that name, never a mixture.
C3_AtomicPublication ==
    /\ \A p \in Procs : InWrite(p) =>
          \A q \in Procs \ {p} : ~InWrite(q) /\ ~InRead(q)
    /\ raced = {}
    /\ \A r \in Readers : gpc[r] \in {"RUnlock", "done"} =>
          \/ gret[r] = NotFound
          \/ \E p \in Writers :
                garg[p].name = garg[r].name /\ gret[r] = Found(garg[p].config)

\* two readers inside the map access at once, and a writer of the name one
\* of them reads waiting for the lock
C3_Witness ==
    \E r \in Procs, q \in Procs, w \in Procs :
        /\ r # q
        /\ gpc[r] = "loading" /\ gpc[q] = "loading"
        /\ garg[w].op = "set" /\ gpc[w] = "Lock"
        /\ garg[w].name = garg[r].name

(***************************************************************************)
(* The load's claims, under Spec.  What a block must come to is stated     *)
(* from the lines read (blk, appSeen, blocks), apart from the parsers.     *)
(***************************************************************************)
\* the keywords of the configuration language
Vocabulary ==
    {"auth_key", "control_url", "ephemeral", "hostname", "port", "state_dir",
     "webui", "tags"}

\* the keywords that are options at App scope
AppKeywords ==
    {"auth_key", "control_url", "ephemeral", "state_dir", "webui", "tags"}

\* the words strconv.ParseBool documents as booleans
BooleanWords ==
    {"1", "t", "T", "TRUE", "true", "True", "0", "f", "F", "FALSE", "false",
     "False"}

\* the number a decimal numeral denotes, -1 when it denotes none
DecimalValue(s) ==
    CASE s = "0" -> 0
      [] s = "8443" -> 8443
      [] s = "65535" -> 65535
      [] s = "65536" -> 65536
      [] OTHER -> -1

StrOf(g) == IF g.seen THEN g.args[1] ELSE ""

TriOf(g) ==
    IF ~g.seen THEN "" ELSE IF g.args = <<>> THEN "true" ELSE g.args[1]

NumOf(g) == IF g.seen THEN DecimalValue(g.args[1]) ELSE 0

RECURSIVE Flatten(_)
Flatten(ss) == IF ss = <<>> THEN <<>> ELSE ss[1] \o Flatten(Tail(ss))

\* the Node that the well-formed lines s of a block named nm describe
Overlay(s, nm) ==
    [AuthKey |-> StrOf(s.given["auth_key"]),
     ControlURL |-> StrOf(s.given["control_url"]),
     Ephemeral |-> TriOf(s.given["ephemeral"]),
     WebUI |-> TriOf(s.given["webui"]),
     Hostname |-> StrOf(s.given["hostname"]),
     Port |-> NumOf(s.given["port"]),
     StateDir |-> StrOf(s.given["state_dir"]),
     Tags |-> Flatten(s.tagLines),
     name |-> nm]

\* the scopes in which lines are read, and a step that reads a line
Scopes == {"app", "node", "directive"}

ReadsLine == pc \in Scopes /\ nlines' = nlines + 1

MissingArg(l, scope) ==
    /\ l.args = <<>>
    /\ l.kw \in (IF scope = "app"
                 THEN {"auth_key", "control_url", "state_dir"}
                 ELSE {"auth_key", "control_url", "hostname", "port",
                       "state_dir"})

BadBool(l) ==
    /\ l.kw \in {"ephemeral", "webui"}
    /\ l.args # <<>>
    /\ l.args[1] \notin BooleanWords

BadPort(l, scope) ==
    /\ scope # "app"
    /\ l.kw = "port"
    /\ l.args # <<>>
    /\ DecimalValue(l.args[1]) \notin 0 .. 65535

Unknown(l, scope) == scope # "app" /\ l.kw \notin Vocabulary

Malformed(l, scope) ==
    MissingArg(l, scope) \/ BadBool(l) \/ BadPort(l, scope) \/ Unknown(l, scope)

\* the last block of the global option that was named nm
LastBlock(nm) ==
    blocks[CHOOSE i \in DOMAIN blocks :
             /\ blocks[i].name = nm
             /\ \A j \in DOMAIN blocks : j > i => blocks[j].name # nm]

C5_AllKeywordsAreAppOptions ==
    /\ \A e \in app.Nodes : e.k \notin Vocabulary
    /\ pc = "node" => node.name \notin Vocabulary

\* C5: at App scope auth_key, control_url, ephemeral, state_dir, webui and
\* tags are options, applied as at Node scope with plain booleans; hostname
\* and port are not: like any other token they name a node.
C5_AppKeywords ==
    pc \in {"app", "node", "loaded"} =>
        /\ \A e \in app.Nodes : e.k \notin AppKeywords
        /\ pc = "node" => node.name \notin AppKeywords
        /\ \A kw \in {"hostname", "port"} : ~appSeen.given[kw].seen
        /\ LET e == Overlay(appSeen, "") IN
             /\ app.DefaultAuthKey = e.AuthKey
             /\ app.ControlURL = e.ControlURL
             /\ app.Ephemeral = (e.Ephemeral = "true")
             /\ app.StateDir = e.StateDir
             /\ app.WebUI = (e.WebUI = "true")
             /\ app.Tags = e.Tags

C5_Witness ==
    /\ pc = "loaded"
    /\ app.DefaultAuthKey = "k0"
    /\ app.WebUI
    /\ Keys(app.Nodes) = {"hostname"}

\* C6: App.Nodes holds one Node per name, the one the last block of that
\* name describes, with nothing kept of an earlier block of the same name;
\* a load fails on a malformed line only, never on a repeated name.
C6_LastBlockWins ==
    /\ pc \in {"app", "node", "loaded"} =>
         /\ Keys(app.Nodes) = {blocks[i].name : i \in DOMAIN blocks}
         /\ \A e \in app.Nodes :
              e.v = Overlay(LastBlock(e.k).seen, e.k)
         /\ \A e, f \in app.Nodes : e.k = f.k => e = f
    /\ pc = "failed" => Malformed(line, "node")

C6_Witness ==
    /\ pc = "loaded"
    /\ Len(blocks) = 2
    /\ blocks[1].name = "node1"
    /\ blocks[2].name = "node1"
    /\ blocks[1].seen.given["hostname"].seen
    /\ blocks[2].seen = NoSeen
    /\ app.Nodes = {[k |-> "node1", v |-> [ZeroNode EXCEPT !.name = "node1"]]}

\* the tri-state field that keyword kw sets in Node n
TriField(n, kw) == IF kw = "ephemeral" THEN n.Ephemeral ELSE n.WebUI

\* a step that reads an ephemeral or webui line in a node's block
C7_Step ==
    (ReadsLine /\ pc # "app" /\ line'.kw \in {"ephemeral", "webui"}) =>
        LET l == line' IN
        IF l.args = <<>>
        THEN TriField(node', l.kw) = "true" /\ err'.kind = "nil" /\ pc' = pc
        ELSE IF l.args[1] \in {"true", "false"}
        THEN TriField(node', l.kw) = l.args[1] /\ err'.kind = "nil" /\ pc' = pc
        ELSE l.args[1] \notin BooleanWords =>
               /\ err' = [kind |-> "WrapErr", detail |-> "ErrSyntax"]
               /\ node' = node
               /\ pc' = "failed"

\* the tri-state fields where no line of the block named the keyword
C7_Unset ==
    /\ \A kw \in {"ephemeral", "webui"} :
         /\ TriField(node, kw) \in {"", "true", "false"}
         /\ (pc \in {"node", "directive", "parsed"} /\ ~blk.given[kw].seen)
                => TriField(node, kw) = ""
         /\ (pc \in {"app", "node", "loaded"}) =>
                \A e \in app.Nodes :
                    /\ TriField(e.v, kw) \in {"", "true", "false"}
                    /\ ~LastBlock(e.k).seen.given[kw].seen
                           => TriField(e.v, kw) = ""
         /\ \A e \in siteConfigs :
                /\ TriField(e.v, kw) \in {"", "true", "false"}
                /\ ~blk.given[kw].seen => TriField(e.v, kw) = ""

\* C7: in a node's block a bare ephemeral or webui sets the field to true,
\* an argument true or false sets it to that value, any argument that is no
\* boolean word fails the parse and leaves the Node as it was; a field no
\* line of the block names stays unset, also when the App's WebUI is true.
C7_TriState == [][C7_Step]_vars /\ []C7_Unset

C7_Witness ==
    /\ pc = "loaded"
    /\ app.WebUI
    /\ app.Nodes =
         {[k |-> "node1",
           v |-> [ZeroNode EXCEPT !.name = "node1", !.Ephemeral = "false"]]}
    /\ line = Line("ephemeral", <<"false">>)

\* a step that reads a port line with an argument
C8_Step ==
    (ReadsLine /\ pc # "app" /\ line'.kw = "port" /\ line'.args # <<>>) =>
        LET v == DecimalValue(line'.args[1]) IN
        IF v \in 0 .. 65535
        THEN node'.Port = v /\ err'.kind = "nil" /\ pc' = pc
        ELSE /\ err'.kind = "WrapErr"
             /\ err'.detail \in {"ErrSyntax", "ErrRange"}
             /\ node'.Port = node.Port
             /\ pc' = "failed"

\* C8: a port argument that is a decimal numeral in 0..65535 is stored with
\* exactly that value; any other argument fails the parse and leaves the
\* stored port as it was, so no port is ever truncated or wrapped.
C8_PortExact == [][C8_Step]_vars /\ [](node.Port \in 0 .. 65535)

C8_Witness ==
    /\ pc = "failed"
    /\ line = Line("port", <<"65536">>)
    /\ node.Port = 65535
    /\ err = [kind |-> "WrapErr", detail |-> "ErrRange"]

\* a step that reads a line, in any scope
C9_Step ==
    ReadsLine =>
        LET l == line'
            scope == pc
        IN /\ MissingArg(l, scope) => err'.kind = "ArgErr"
           /\ BadBool(l) => err' = [kind |-> "WrapErr", detail |-> "ErrSyntax"]
           /\ BadPort(l, scope) => err'.kind = "WrapErr"
           /\ Unknown(l, scope) =>
                err' = [kind |-> "unrecognized subdirective", detail |-> l.kw]
           /\ err'.kind # "nil" =>
                /\ pc' = "failed"
                /\ scope \in {"app", "node"} => appResult' = "nil"
                /\ scope = "directive" => handler' = "nil"
                /\ siteConfigs' = EmptyMap
                /\ app' = app /\ node' = node /\ directive' = directive

C10_Step ==
    (ReadsLine /\ line'.kw = "tags") =>
        /\ err'.kind = "nil"
        /\ pc' = pc
        /\ IF pc = "app"
           THEN app'.Tags = app.Tags \o line'.args
           ELSE node'.Tags = node.Tags \o line'.args

\* the tag lists against the tags lines read so far
C10_Order ==
    /\ pc \in {"node", "directive", "parsed"}
           => node.Tags = Flatten(blk.tagLines)
    /\ pc \in {"parsed", "provisioned"}
           => directive.Tags = Flatten(blk.tagLines)
    /\ pc \in {"app", "node", "loaded"}
           => app.Tags = Flatten(appSeen.tagLines)

\* C10: a tags line appends its arguments, in order, to the tags already
\* collected in its scope; a tags line without arguments is accepted and
\* changes nothing.
C10_TagsAppend == [][C10_Step]_vars /\ []C10_Order

C10_Witness ==
    /\ pc = "directive"
    /\ blk.tagLines = << <<"a", "b", "c">>, <<>>, <<"b">> >>
    /\ node.Tags = <<"a", "b", "c", "b">>

====
